---- MODULE Spec2Model ----
(***************************************************************************)
(* A model of component.ResourceParser (src/component/resource_parser.go): *)
(* the category registry (list + index), the form store, the shared text   *)
(* buffer, and the Parse entry point with its six mergers.                 *)
(*                                                                         *)
(* Text is a sequence of one-character strings, so that trimming and       *)
(* splitting are computed character by character.  A content row is a Go   *)
(* map[string]string: a record whose missing keys read as the empty text.  *)
(* A *Category returned by getCat is modelled by its position in the       *)
(* registry list (0 is the nil pointer), and likewise for the pointers     *)
(* returned by the child look-ups.                                         *)
(***************************************************************************)
EXTENDS Integers, Sequences, FiniteSets, TLC

VARIABLES
    list,      \* r.categories.list  : sequence of localized categories
    index,     \* r.categories.index : (id, locale) -> 0-based position in list
    forms,     \* r.forms            : (id, locale) -> localized form
    buffer,    \* r.buffer           : the shared text-accumulation buffer
    pc,        \* the caller: "idle", "returned" (from Parse), "crashed" (Parse panicked)
    call,      \* the arguments of the last Parse call, as they are after it
    ret,       \* what the last Parse returned: the error kind and the rows consumed
    old        \* the parser's fields and res.Content as they were at the call

vars == <<list, index, forms, buffer, pc, call, ret, old>>

(***************************************************************************)
(* Bounds of the model.                                                    *)
(***************************************************************************)
MaxCats == 2
MaxNodes == 5
MaxRows == 3

(***************************************************************************)
(* Text.                                                                   *)
(***************************************************************************)
Empty == <<>>

IsSpace(c) == c \in {" ", "\t", "\n"}

RECURSIVE TrimLeft(_)
TrimLeft(s) ==
    IF s # <<>> /\ IsSpace(Head(s)) THEN TrimLeft(Tail(s)) ELSE s

RECURSIVE TrimRight(_)
TrimRight(s) ==
    IF s # <<>> /\ IsSpace(s[Len(s)]) THEN TrimRight(SubSeq(s, 1, Len(s) - 1)) ELSE s

TrimSpace(s) == TrimRight(TrimLeft(s))

\* strings.Split(s, sep) for a one-character sep: the pieces between the
\* separators, always at least one piece.
RECURSIVE SplitFrom(_, _, _)
SplitFrom(s, sep, piece) ==
    IF s = <<>> THEN <<piece>>
    ELSE IF Head(s) = sep THEN <<piece>> \o SplitFrom(Tail(s), sep, <<>>)
    ELSE SplitFrom(Tail(s), sep, Append(piece, Head(s)))

Split(s, sep) == SplitFrom(s, sep, <<>>)

optionSep == ";"

paragraphSep == <<"\n", "\n">>

\* m[key] on a Go map: the empty string when the key is missing (or m is nil).
Get(row, key) == IF key \in DOMAIN row THEN row[key] ELSE Empty

NilRow == [nil |-> TRUE]

(***************************************************************************)
(* Error kinds returned by Parse.                                          *)
(***************************************************************************)
OK == "ok"
ErrContent == "ShapeMismatch"
ErrNotFound == "NotFound"
ErrInvalid == "UnsupportedVariant"
Panic == "panic"

(***************************************************************************)
(* Go maps.                                                                *)
(***************************************************************************)
EmptyMap == [k \in {} |-> 0]

MapPut(m, key, val) ==
    [k \in DOMAIN m \cup {key} |-> IF k = key THEN val ELSE m[k]]

\* m[key] on a map[...]int: zero when the key is missing.
MapInt(m, key) == IF key \in DOMAIN m THEN m[key] ELSE 0

(***************************************************************************)
(* The localized tree.  The child containers of Category, Subcategory and  *)
(* Difficulty are declared outside resource_parser.go.                     *)
(***************************************************************************)
NoChecks == [set |-> FALSE, Checks |-> <<>>]

\* The position of the first element of seq whose ID is id, 0 when none.
FirstByID(seq, id) ==
    IF \E k \in 1..Len(seq) : seq[k].ID = id
    THEN CHOOSE k \in 1..Len(seq) :
            /\ seq[k].ID = id
            /\ \A h \in 1..(k - 1) : seq[h].ID # id
    ELSE 0

\* cat.Add(sub) on the category at position ci.
CatAdd(l, ci, sub) ==
    [l EXCEPT ![ci].Subcategories = Append(@, sub)]

\* cat.Sub(id): the subcategory with that id inside the category, or nil (0).
CatSub(l, ci, id) == FirstByID(l[ci].Subcategories, id)

\* sub.AddDifficulty(dif)
SubAddDifficulty(l, ci, si, dif) ==
    [l EXCEPT ![ci].Subcategories[si].Difficulties = Append(@, dif)]

\* sub.Difficulty(id)
SubDifficulty(l, ci, si, id) ==
    FirstByID(l[ci].Subcategories[si].Difficulties, id)

\* dif.AddItem(item)
DifAddItem(l, ci, si, di, item) ==
    [l EXCEPT ![ci].Subcategories[si].Difficulties[di].Items = Append(@, item)]

\* dif.SetChecks(&checks)
DifSetChecks(l, ci, si, di, checks) ==
    [l EXCEPT ![ci].Subcategories[si].Difficulties[di].Checks =
                  [set |-> TRUE, Checks |-> checks]]

(***************************************************************************)
(* The registry.                                                           *)
(***************************************************************************)
\* What a merger hands back: the error kind, the parser's fields after the
\* call, res.Content after the call, and (for a form) which row of
\* res.Content each screen header and item slot consumed.
Done(err, l, ix, fm, buf, content, used) ==
    [err |-> err, list |-> l, index |-> ix, forms |-> fm, buffer |-> buf,
     content |-> content, used |-> used]

\* A return before anything was written.
Fail(err, content) == Done(err, list, index, forms, buffer, content, <<>>)

\* addCat that keeps the index entry of a key that is already registered.
addCatKeepFirst(c) ==
    [index |-> IF <<c.ID, c.Locale>> \in DOMAIN index THEN index
               ELSE MapPut(index, <<c.ID, c.Locale>>, Len(list)),
     list  |-> Append(list, c)]

addCat(c) ==
    [index |-> MapPut(index, <<c.ID, c.Locale>>, Len(list)),
     list  |-> Append(list, c)]

\* The position in list of the category getCat returns, 0 for nil.
getCat(id, locale) ==
    IF DOMAIN index = {} THEN 0
    ELSE MapInt(index, <<id, locale>>) + 1

\* Categories() read through the index: only the entry the index points to
\* for each (id, locale).
CategoriesByIndex ==
    [loc \in {list[k].Locale : k \in 1..Len(list)} |->
        SelectSeq(list, LAMBDA c : c.Locale = loc /\ list[index[<<c.ID, c.Locale>>] + 1] = c)]

\* Categories(): locale -> the categories of that locale, in list order.
Categories ==
    [loc \in {list[k].Locale : k \in 1..Len(list)} |->
        SelectSeq(list, LAMBDA c : c.Locale = loc)]

(***************************************************************************)
(* The mergers.                                                            *)
(***************************************************************************)
\* parseCategory with the registration moved in front of the row-count check.
parseCategoryEager(c, res, locale) ==
    LET new == [ID |-> c.ID, Order |-> c.Order,
                Name |-> IF Len(res) > 0 THEN Get(res[1], "name") ELSE Empty,
                Locale |-> locale, Subcategories |-> <<>>]
        reg == addCat(new)
    IN  IF Len(res) # 1
        THEN Done(ErrContent, reg.list, reg.index, forms, buffer, res, <<>>)
        ELSE Done(OK, reg.list, reg.index, forms, buffer, res, <<>>)

\* parseCategory that only refuses an empty Resource.
parseCategoryLax(c, res, locale) ==
    IF Len(res) = 0 THEN Fail(ErrContent, res)
    ELSE LET new == [ID |-> c.ID, Order |-> c.Order,
                     Name |-> Get(res[1], "name"), Locale |-> locale,
                     Subcategories |-> <<>>]
             reg == addCat(new)
         IN  Done(OK, reg.list, reg.index, forms, buffer, res, <<>>)

parseCategory(c, res, locale) ==
    IF Len(res) # 1 THEN Fail(ErrContent, res)
    ELSE LET new == [ID |-> c.ID, Order |-> c.Order,
                     Name |-> Get(res[1], "name"), Locale |-> locale,
                     Subcategories |-> <<>>]
             reg == addCat(new)
         IN  Done(OK, reg.list, reg.index, forms, buffer, res, <<>>)

parseSubcategory(s, res, locale) ==
    IF Len(res) # 1 THEN Fail(ErrContent, res)
    ELSE LET cat == getCat(s.parent.ID, locale) IN
         IF cat = 0 THEN Fail(ErrNotFound, res)
         ELSE Done(OK,
                   CatAdd(list, cat,
                          [ID |-> s.ID, Order |-> s.Order,
                           Name |-> Get(res[1], "name"),
                           Difficulties |-> <<>>]),
                   index, forms, buffer, res, <<>>)

parseDifficulty(d, res, locale) ==
    IF Len(res) # 1 THEN Fail(ErrContent, res)
    ELSE LET cat == getCat(d.parent.parent.ID, locale) IN
         IF cat = 0 THEN Fail(ErrNotFound, res)
         ELSE LET sub == CatSub(list, cat, d.parent.ID) IN
              IF sub = 0 THEN Fail(ErrNotFound, res)
              ELSE Done(OK,
                        SubAddDifficulty(list, cat, sub,
                            [ID |-> d.ID,
                             Descr |-> Get(res[1], "description"),
                             Items |-> <<>>, Checks |-> NoChecks]),
                        index, forms, buffer, res, <<>>)

\* writeParagraphs that writes the separator in front of every row.
RECURSIVE writeParagraphsAlways(_, _)
writeParagraphsAlways(buf, rows) ==
    IF rows = <<>> THEN buf
    ELSE writeParagraphsAlways(
             buf \o paragraphSep \o TrimSpace(Get(Head(rows), "body")),
             Tail(rows))

\* writeParagraphs that leaves out the rows whose trimmed body is empty.
RECURSIVE writeParagraphsSkipEmpty(_, _)
writeParagraphsSkipEmpty(buf, rows) ==
    IF rows = <<>> THEN buf
    ELSE IF TrimSpace(Get(Head(rows), "body")) = Empty
    THEN writeParagraphsSkipEmpty(buf, Tail(rows))
    ELSE writeParagraphsSkipEmpty(
             (IF Len(buf) # 0 THEN buf \o paragraphSep ELSE buf)
                 \o TrimSpace(Get(Head(rows), "body")),
             Tail(rows))

\* The loop of parseItem over res.Content[1:]: a separator before a row when
\* the buffer is not empty, then the row's trimmed body.
RECURSIVE writeParagraphs(_, _)
writeParagraphs(buf, rows) ==
    IF rows = <<>> THEN buf
    ELSE writeParagraphs(
             (IF Len(buf) # 0 THEN buf \o paragraphSep ELSE buf)
                 \o TrimSpace(Get(Head(rows), "body")),
             Tail(rows))

\* parseItem without the row-count check of the legacy branch.
parseItemAnyLegacy(i, res, locale) ==
    IF Len(res) = 0 THEN Fail(ErrContent, res)
    ELSE LET cat == getCat(i.parent.parent.parent.ID, locale) IN
    IF cat = 0 THEN Fail(ErrNotFound, res)
    ELSE LET sub == CatSub(list, cat, i.parent.parent.ID) IN
    IF sub = 0 THEN Fail(ErrNotFound, res)
    ELSE LET dif == SubDifficulty(list, cat, sub, i.parent.ID) IN
    IF dif = 0 THEN Fail(ErrNotFound, res)
    ELSE LET title == TrimSpace(Get(res[1], "title"))
             buf   == IF Get(res[1], "body") # Empty
                      THEN TrimSpace(Get(res[1], "body"))
                      ELSE writeParagraphs(Empty, Tail(res))
         IN  Done(OK,
                  DifAddItem(list, cat, sub, dif,
                      [ID |-> i.ID, Title |-> title,
                       Order |-> i.Order, Body |-> buf]),
                  index, forms, buf, res, <<>>)

\* parseItem without r.buffer.Reset(): the body is written behind what the
\* buffer holds.
parseItemNoReset(i, res, locale) ==
    IF Len(res) = 0 THEN Fail(ErrContent, res)
    ELSE LET cat == getCat(i.parent.parent.parent.ID, locale) IN
    IF cat = 0 THEN Fail(ErrNotFound, res)
    ELSE LET sub == CatSub(list, cat, i.parent.parent.ID) IN
    IF sub = 0 THEN Fail(ErrNotFound, res)
    ELSE LET dif == SubDifficulty(list, cat, sub, i.parent.ID) IN
    IF dif = 0 THEN Fail(ErrNotFound, res)
    ELSE LET title == TrimSpace(Get(res[1], "title"))
             reset == buffer
         IN
         IF Get(res[1], "body") # Empty
         THEN IF Len(res) # 1
              THEN Done(ErrContent, list, index, forms, reset, res, <<>>)
              ELSE LET buf == reset \o TrimSpace(Get(res[1], "body")) IN
                   Done(OK,
                        DifAddItem(list, cat, sub, dif,
                            [ID |-> i.ID, Title |-> title,
                             Order |-> i.Order, Body |-> buf]),
                        index, forms, buf, res, <<>>)
         ELSE LET buf == writeParagraphs(reset, Tail(res)) IN
              Done(OK,
                   DifAddItem(list, cat, sub, dif,
                       [ID |-> i.ID, Title |-> title,
                        Order |-> i.Order, Body |-> buf]),
                   index, forms, buf, res, <<>>)

parseItem(i, res, locale) ==
    IF Len(res) = 0 THEN Fail(ErrContent, res)
    ELSE LET cat == getCat(i.parent.parent.parent.ID, locale) IN
    IF cat = 0 THEN Fail(ErrNotFound, res)
    ELSE LET sub == CatSub(list, cat, i.parent.parent.ID) IN
    IF sub = 0 THEN Fail(ErrNotFound, res)
    ELSE LET dif == SubDifficulty(list, cat, sub, i.parent.ID) IN
    IF dif = 0 THEN Fail(ErrNotFound, res)
    ELSE LET title == TrimSpace(Get(res[1], "title"))
             reset == Empty                      \* r.buffer.Reset()
         IN
         IF Get(res[1], "body") # Empty
         THEN IF Len(res) # 1
              THEN Done(ErrContent, list, index, forms, reset, res, <<>>)
              ELSE LET buf == reset \o TrimSpace(Get(res[1], "body")) IN
                   Done(OK,
                        DifAddItem(list, cat, sub, dif,
                            [ID |-> i.ID, Title |-> title,
                             Order |-> i.Order, Body |-> buf]),
                        index, forms, buf, res, <<>>)
         ELSE LET buf == writeParagraphs(reset, Tail(res)) IN
              Done(OK,
                   DifAddItem(list, cat, sub, dif,
                       [ID |-> i.ID, Title |-> title,
                        Order |-> i.Order, Body |-> buf]),
                   index, forms, buf, res, <<>>)

\* dropNil that drops every nil row, not only the leading ones.
dropNilAll(rows) == SelectSeq(rows, LAMBDA r : r # NilRow)

\* The loop of parseChecklist that drops the leading nil rows of res.Content.
RECURSIVE dropNil(_)
dropNil(rows) ==
    IF Len(rows) > 0 /\ Head(rows) = NilRow THEN dropNil(Tail(rows)) ELSE rows

\* parseChecklist that takes the first category of the list instead of
\* looking the category up.
parseChecklistFirstCat(c, res, locale) ==
    LET cat == IF Len(list) = 0 THEN 0 ELSE 1 IN
    IF cat = 0 THEN Fail(ErrNotFound, res)
    ELSE LET sub == CatSub(list, cat, c.parent.parent.ID) IN
    IF sub = 0 THEN Fail(ErrNotFound, res)
    ELSE LET dif == SubDifficulty(list, cat, sub, c.parent.ID) IN
    IF dif = 0 THEN Fail(ErrNotFound, res)
    ELSE LET content == dropNil(res) IN
         IF Len(content) # Len(c.Checks) THEN Fail(ErrContent, content)
         ELSE Done(OK, DifSetChecks(list, cat, sub, dif,
                     [k \in 1..Len(content) |->
                         [Text |-> TrimSpace(Get(content[k], "text")),
                          NoCheck |-> c.Checks[k].NoCheck]]),
                   index, forms, buffer, content, <<>>)

parseChecklist(c, res, locale) ==
    LET cat == getCat(c.parent.parent.parent.ID, locale) IN
    IF cat = 0 THEN Fail(ErrNotFound, res)
    ELSE LET sub == CatSub(list, cat, c.parent.parent.ID) IN
    IF sub = 0 THEN Fail(ErrNotFound, res)
    ELSE LET dif == SubDifficulty(list, cat, sub, c.parent.ID) IN
    IF dif = 0 THEN Fail(ErrNotFound, res)
    ELSE LET content == dropNil(res) IN
         IF Len(content) # Len(c.Checks) THEN Fail(ErrContent, content)
         ELSE Done(OK,
                   DifSetChecks(list, cat, sub, dif,
                       [k \in 1..Len(content) |->
                           [Text |-> TrimSpace(Get(content[k], "text")),
                            NoCheck |-> c.Checks[k].NoCheck]]),
                   index, forms, buffer, content, <<>>)

(***************************************************************************)
(* The form aligner.                                                       *)
(***************************************************************************)
NilSlice == <<>>

\* The zero FormInput that make([]FormInput, n) fills a screen with.
ZeroInput == [Label |-> Empty, Hint |-> Empty, Options |-> NilSlice]

ZeroItems(n) == [j \in 1..n |-> ZeroInput]

\* One consumed row: screen i, slot j (0 for the screen header, and screen 0
\* for the form-name row), row p of res.Content.
Used(i, j, p) == [screen |-> i, slot |-> j, row |-> p]

\* The inner loop of parseForm over screen.Items, the items of the NEW
\* screen; p is the position in res.Content of m[0].  `item` is a copy of
\* screen.Items[j], so what is assigned to it is not kept in items.
RECURSIVE formItems(_, _, _, _, _, _)
formItems(res, items, i, j, p, used) ==
    IF j > Len(items) THEN [err |-> OK, p |-> p, used |-> used, items |-> items]
    ELSE LET item == items[j] IN
         IF item.Label = Empty /\ item.Hint = Empty /\ item.Options = NilSlice
         THEN formItems(res, items, i, j + 1, p, used)
         ELSE IF p > Len(res)
         THEN [err |-> Panic, p |-> p, used |-> used, items |-> items]
         ELSE IF Get(res[p], "screen") # Empty
         THEN [err |-> ErrContent, p |-> p, used |-> used, items |-> items]
         ELSE formItems(res, items, i, j + 1, p + 1,
                        Append(used, Used(i, j, p)))

\* formScreens that reads a screen header without moving on to the next row.
RECURSIVE formScreensStuck(_, _, _, _, _, _)
formScreensStuck(f, res, i, p, screens, used) ==
    IF i > Len(f.Screens)
    THEN [err |-> OK, screens |-> screens, used |-> used]
    ELSE LET named == f.Screens[i].Name # Empty IN
         IF named /\ p > Len(res)
         THEN [err |-> ErrContent, screens |-> screens, used |-> used]
         ELSE IF named /\ Get(res[p], "screen") = Empty
         THEN [err |-> ErrContent, screens |-> screens, used |-> used]
         ELSE LET name  == IF named THEN Get(res[p], "screen") ELSE Empty
                  used1 == IF named THEN Append(used, Used(i, 0, p)) ELSE used
                  it    == formItems(res, ZeroItems(Len(f.Screens[i].Items)),
                                     i, 1, p, used1)
              IN  IF it.err # OK
                  THEN [err |-> it.err, screens |-> screens, used |-> it.used]
                  ELSE formScreensStuck(f, res, i + 1, it.p,
                                        Append(screens,
                                               [Name |-> name, Items |-> it.items]),
                                        it.used)

\* The outer loop of parseForm over newForm.Screens.
RECURSIVE formScreens(_, _, _, _, _, _)
formScreens(f, res, i, p, screens, used) ==
    IF i > Len(f.Screens)
    THEN [err |-> OK, screens |-> screens, used |-> used]
    ELSE LET named == f.Screens[i].Name # Empty IN
         IF named /\ p > Len(res)
         THEN [err |-> ErrContent, screens |-> screens, used |-> used]
         ELSE IF named /\ Get(res[p], "screen") = Empty
         THEN [err |-> ErrContent, screens |-> screens, used |-> used]
         ELSE LET name  == IF named THEN Get(res[p], "screen") ELSE Empty
                  p1    == IF named THEN p + 1 ELSE p
                  used1 == IF named THEN Append(used, Used(i, 0, p)) ELSE used
                  it    == formItems(res, ZeroItems(Len(f.Screens[i].Items)),
                                     i, 1, p1, used1)
              IN  IF it.err # OK
                  THEN [err |-> it.err, screens |-> screens, used |-> it.used]
                  ELSE formScreens(f, res, i + 1, it.p,
                                   Append(screens,
                                          [Name |-> name, Items |-> it.items]),
                                   it.used)

\* parseForm that adds the screens it built to the form already stored under
\* the key instead of replacing that form.
parseFormInto(f, res, locale) ==
    IF Len(res) = 0 THEN Fail(Panic, res)
    ELSE LET w    == formScreens(f, res, 1, 2, <<>>, <<Used(0, 0, 1)>>)
             key  == <<f.ID, locale>>
             kept == IF key \in DOMAIN forms THEN forms[key].Screens ELSE <<>>
         IN  IF w.err # OK
             THEN Done(w.err, list, index, forms, buffer, res, w.used)
             ELSE Done(OK, list, index,
                       MapPut(forms, key,
                              [ID |-> f.ID, Name |-> Get(res[1], "form"),
                               Locale |-> locale, Screens |-> kept \o w.screens]),
                       buffer, res, w.used)

parseForm(f, res, locale) ==
    IF Len(res) = 0 THEN Fail(Panic, res)         \* res.Content[0]
    ELSE LET w == formScreens(f, res, 1, 2, <<>>, <<Used(0, 0, 1)>>) IN
         IF w.err # OK
         THEN Done(w.err, list, index, forms, buffer, res, w.used)
         ELSE Done(OK, list, index,
                   MapPut(forms, <<f.ID, locale>>,
                          [ID |-> f.ID, Name |-> Get(res[1], "form"),
                           Locale |-> locale, Screens |-> w.screens]),
                   buffer, res, w.used)

(***************************************************************************)
(* The dispatcher.                                                         *)
(***************************************************************************)
\* The type switch without the case for *Checklist.
ParseNoChecklist(cmp, res, locale) ==
    CASE cmp.kind = "Form"        -> parseForm(cmp, res, locale)
      [] cmp.kind = "Category"    -> parseCategory(cmp, res, locale)
      [] cmp.kind = "Subcategory" -> parseSubcategory(cmp, res, locale)
      [] cmp.kind = "Difficulty"  -> parseDifficulty(cmp, res, locale)
      [] cmp.kind = "Item"        -> parseItem(cmp, res, locale)
      [] OTHER                    -> Fail(ErrInvalid, res)

Parse(cmp, res, locale) ==
    CASE cmp.kind = "Form"        -> parseForm(cmp, res, locale)
      [] cmp.kind = "Category"    -> parseCategory(cmp, res, locale)
      [] cmp.kind = "Subcategory" -> parseSubcategory(cmp, res, locale)
      [] cmp.kind = "Difficulty"  -> parseDifficulty(cmp, res, locale)
      [] cmp.kind = "Item"        -> parseItem(cmp, res, locale)
      [] cmp.kind = "Checklist"   -> parseChecklist(cmp, res, locale)
      [] OTHER                    -> Fail(ErrInvalid, res)

(***************************************************************************)
(* The schema tree handed to Parse, and the rows of the Resources.         *)
(***************************************************************************)
CatC1 == [kind |-> "Category", ID |-> "c1", Order |-> 1]
CatC2 == [kind |-> "Category", ID |-> "c2", Order |-> 2]
SubS1 == [kind |-> "Subcategory", ID |-> "s1", Order |-> 1, parent |-> CatC1]
DifD1 == [kind |-> "Difficulty", ID |-> "d1", parent |-> SubS1]
ItemI1 == [kind |-> "Item", ID |-> "i1", Order |-> 1, parent |-> DifD1]
ChkK1 == [kind |-> "Checklist", parent |-> DifD1,
          Checks |-> <<[NoCheck |-> FALSE], [NoCheck |-> TRUE]>>]
\* A Component that is none of the six kinds of the type switch.
Other == [kind |-> "Other"]

RealSlot == [Label |-> <<"l">>, Hint |-> <<"h">>, Options |-> << <<"o">> >>]
Placeholder == ZeroInput

\* One named screen holding a real slot and a placeholder slot.
FormA == [kind |-> "Form", ID |-> "fA",
          Screens |-> <<[Name |-> <<"S">>, Items |-> <<RealSlot, Placeholder>>]>>]
\* Two named screens.
FormB == [kind |-> "Form", ID |-> "fB",
          Screens |-> <<[Name |-> <<"S">>, Items |-> <<RealSlot>>],
                        [Name |-> <<"T">>, Items |-> <<Placeholder, RealSlot>>]>>]
\* An anonymous screen followed by a named one.
FormC == [kind |-> "Form", ID |-> "fC",
          Screens |-> <<[Name |-> Empty, Items |-> <<RealSlot>>],
                        [Name |-> <<"T">>, Items |-> <<>>]>>]

Locales == {"en", "it"}

SeqsUpTo(S, n) == UNION {[1..k -> S] : k \in 0..n}

\* Rows of a category, subcategory or difficulty Resource.
RowName == [name |-> <<"N">>, description |-> <<"D">>]

\* Rows of an item Resource.
RowTitle  == [title |-> <<" ", "T">>]
RowLegacy == [title |-> <<"T">>, body |-> <<" ", "x", " ">>]
RowPara   == [body |-> <<"p", " ">>]
ItemRows  == {RowTitle, RowLegacy, RowPara}

\* Rows of a checklist Resource.
RowTextA == [text |-> <<" ", "a">>]
RowTextB == [text |-> <<"b">>]

\* Rows of a form Resource.
RowForm    == [form |-> <<"F">>]
RowScreenX == [screen |-> <<"X">>]
RowScreenY == [screen |-> <<"Y">>]
RowItem    == [label |-> <<"L">>, hint |-> <<"H">>, options |-> <<"a", ";", "b">>]
FormRows   == {RowForm, RowScreenX, RowScreenY, RowItem}

(***************************************************************************)
(* The sizes of the localized tree.                                        *)
(***************************************************************************)
RECURSIVE SumSeq(_)
SumSeq(s) == IF s = <<>> THEN 0 ELSE Head(s) + SumSeq(Tail(s))

\* The nodes under one localized subcategory, difficulty, category.
DifNodes(d) == 1 + Len(d.Items)
SubNodes(s) == 1 + SumSeq([k \in 1..Len(s.Difficulties) |-> DifNodes(s.Difficulties[k])])
CatNodes(c) == 1 + SumSeq([k \in 1..Len(c.Subcategories) |-> SubNodes(c.Subcategories[k])])
NumNodes == SumSeq([k \in 1..Len(list) |-> CatNodes(list[k])])

\* The caller stops adding categories once the registry holds MaxCats, and
\* stops adding categories, subcategories, difficulties and items once the
\* tree holds MaxNodes of them.
Allowed(cmp) ==
    /\ cmp.kind \in {"Category", "Subcategory", "Difficulty", "Item"}
           => NumNodes < MaxNodes
    /\ cmp.kind = "Category" => Len(list) < MaxCats

(***************************************************************************)
(* The calls.                                                              *)
(***************************************************************************)
Args(cmp, res, locale) == [cmp |-> cmp, res |-> res, locale |-> locale]

NoCall == Args([kind |-> "none"], <<>>, "")
NoRet  == [err |-> "none", used |-> <<>>]
NoOld  == [list |-> <<>>, index |-> EmptyMap, forms |-> EmptyMap,
           buffer |-> Empty, res |-> <<>>]

\* The Resources the caller hands over with each kind of node.
OneRow == {<<>>, <<RowName>>, <<RowName, RowName>>}

Inputs ==
    {Args(c, r, l) : c \in {CatC1, CatC2, SubS1, DifD1}, r \in OneRow, l \in Locales}
    \cup {Args(ItemI1, r, l) :
            r \in {<<>>, <<RowLegacy>>, <<RowLegacy, RowPara>>, <<RowTitle, RowPara>>},
            l \in Locales}
    \cup {Args(ChkK1, r, l) :
            r \in {<<>>, <<RowTextA>>, <<RowTextA, RowTextB>>, <<RowTextB, NilRow>>,
                   <<NilRow, RowTextA, RowTextB>>},
            l \in Locales}
    \cup {Args(FormA, r, l) :
            r \in {<<>>, <<RowForm>>, <<RowForm, RowScreenX>>, <<RowForm, RowItem>>},
            l \in Locales}
    \cup {Args(Other, <<>>, l) : l \in Locales}

FormInputs ==
    {Args(f, r, "en") : f \in {FormA, FormB, FormC}, r \in SeqsUpTo(FormRows, MaxRows)}

\* Forms of two ids stored over one another in both locales, next to a
\* registry that holds categories.
StoreInputs ==
    {Args(c, <<RowName>>, l) : c \in {CatC1, CatC2}, l \in Locales}
    \cup {Args(f, r, l) :
            f \in {FormA, FormC},
            r \in {<<RowForm>>, <<RowForm, RowScreenX>>, <<RowForm, RowScreenY>>,
                   <<RowForm, RowItem, RowScreenX>>},
            l \in Locales}

ItemInputs ==
    {Args(c, <<RowName>>, "en") : c \in {CatC1, SubS1, DifD1}}
    \cup {Args(ItemI1, r, "en") : r \in SeqsUpTo(ItemRows, MaxRows)}

Init ==
    /\ list = <<>>
    /\ index = EmptyMap
    /\ forms = EmptyMap
    /\ buffer = Empty
    /\ pc = "idle"
    /\ call = NoCall
    /\ ret = NoRet
    /\ old = NoOld

\* One call Parse(cmp, res, locale), from its entry to its return (or to the
\* panic that ends the process).
ParseOf(inputs) ==
    /\ pc = "idle"
    /\ \E a \in inputs :
          /\ Allowed(a.cmp)
          /\ LET r == Parse(a.cmp, a.res, a.locale) IN
                /\ list' = r.list
                /\ index' = r.index
                /\ forms' = r.forms
                /\ buffer' = r.buffer
                /\ call' = [a EXCEPT !.res = r.content]
                /\ ret' = [err |-> r.err, used |-> r.used]
                /\ pc' = IF r.err = Panic THEN "crashed" ELSE "returned"
          /\ old' = [list |-> list, index |-> index, forms |-> forms,
                     buffer |-> buffer, res |-> a.res]

Call == ParseOf(Inputs)
CallForm == ParseOf(FormInputs)
CallItem == ParseOf(ItemInputs)

\* The caller takes the error value and goes on.
Return ==
    /\ pc = "returned"
    /\ pc' = "idle"
    /\ call' = NoCall
    /\ ret' = NoRet
    /\ old' = NoOld
    /\ UNCHANGED <<list, index, forms, buffer>>

Next == Call \/ Return
Spec == Init /\ [][Next]_vars

NextForm == CallForm \/ Return
SpecForm == Init /\ [][NextForm]_vars

NextItem == CallItem \/ Return
SpecItem == Init /\ [][NextItem]_vars

CallStore == ParseOf(StoreInputs)
NextStore == CallStore \/ Return
SpecStore == Init /\ [][NextStore]_vars

(***************************************************************************)
(* What the claims speak of.                                               *)
(***************************************************************************)
Returned(kind) == pc = "returned" /\ call.cmp.kind = kind

\* The position of the newest entry of l with that id and locale, 0 if none.
Registered(l, id, locale) ==
    LET hits == {k \in 1..Len(l) : l[k].ID = id /\ l[k].Locale = locale} IN
    IF hits = {} THEN 0 ELSE CHOOSE k \in hits : \A h \in hits : h <= k

\* C1: a Parse call that returns an error leaves the category registry (list,
\* index and every subtree) and the form store exactly as they were before
\* the call.
C1_FailedCallWritesNothing ==
    (pc = "returned" /\ ret.err # OK) =>
        /\ list = old.list
        /\ index = old.index
        /\ forms = old.forms

\* A legacy item with two rows is refused after its difficulty was resolved,
\* in a registry that holds earlier merges.
C1_Witness ==
    /\ Returned("Item")
    /\ ret.err = ErrContent
    /\ Len(old.res) = 2
    /\ list # <<>>

\* C2 (as the claim states it, on one-row Resources): a Subcategory merge
\* fails NotFound iff no Category (parent.id, locale) is registered, and a
\* Difficulty merge fails NotFound iff the Category (grandparent.id, locale)
\* or the Subcategory parent.id inside it is absent.
C2_NotFoundIffAncestorAbsent ==
    /\ (Returned("Subcategory") /\ Len(old.res) = 1) =>
          (ret.err = ErrNotFound
              <=> Registered(old.list, call.cmp.parent.ID, call.locale) = 0)
    /\ (Returned("Difficulty") /\ Len(old.res) = 1) =>
          LET cat == Registered(old.list, call.cmp.parent.parent.ID, call.locale) IN
          (ret.err = ErrNotFound
              <=> \/ cat = 0
                  \/ \A k \in 1..Len(old.list[cat].Subcategories) :
                        old.list[cat].Subcategories[k].ID # call.cmp.parent.ID)

\* C6: no Parse call ends in a panic.
C6_NoPanic == pc # "crashed"

\* C7: a Category merge with exactly one row succeeds and appends exactly one
\* entry for (id, locale), named by the row's name field, to which the index
\* points; with zero or two or more rows it fails ShapeMismatch and adds
\* nothing.
C7_CategoryRowCount ==
    Returned("Category") =>
        IF Len(old.res) = 1
        THEN /\ ret.err = OK
             /\ Len(list) = Len(old.list) + 1
             /\ SubSeq(list, 1, Len(old.list)) = old.list
             /\ list[Len(list)].ID = call.cmp.ID
             /\ list[Len(list)].Locale = call.locale
             /\ list[Len(list)].Name = old.res[1].name
             /\ list[Len(list)].Subcategories = <<>>
             /\ index = MapPut(old.index, <<call.cmp.ID, call.locale>>, Len(old.list))
        ELSE /\ ret.err = ErrContent
             /\ list = old.list
             /\ index = old.index

\* A second category is registered behind a first one.
C7_Witness ==
    /\ Returned("Category")
    /\ ret.err = OK
    /\ Len(old.res) = 1
    /\ Len(list) = 2

(***************************************************************************)
(* Forms: the schema's own view of the row stream.                         *)
(***************************************************************************)
\* The slots of the schema form f: <<screen, slot>>.
Slots(f) ==
    UNION {{<<i, j>> : j \in 1..Len(f.Screens[i].Items)} : i \in 1..Len(f.Screens)}

IsReal(f, i, j) ==
    LET slot == f.Screens[i].Items[j] IN
    slot.Label # Empty \/ slot.Hint # Empty \/ slot.Options # NilSlice

IsNamed(f, i) == f.Screens[i].Name # Empty

\* The row a real slot (i, j) stands for when every named screen before it
\* and its own took one header row and every real slot before it one row.
SlotRow(f, i, j) ==
    2 + Cardinality({k \in 1..i : IsNamed(f, k)})
      + Cardinality({s \in Slots(f) :
                        /\ IsReal(f, s[1], s[2])
                        /\ (s[1] < i \/ (s[1] = i /\ s[2] < j))})

HeaderRow(f, i) ==
    2 + Cardinality({k \in 1..(i - 1) : IsNamed(f, k)})
      + Cardinality({s \in Slots(f) : IsReal(f, s[1], s[2]) /\ s[1] < i})

Events == {ret.used[k] : k \in 1..Len(ret.used)}

FormKey == <<call.cmp.ID, call.locale>>

\* C3: in a successful Form merge every real schema slot consumes exactly
\* one row after the form-name row, and the stored item has that row's label
\* and hint and its options split on ";"; a placeholder slot consumes no row.
C3_RealSlotsTakeOneRow ==
    (Returned("Form") /\ ret.err = OK) =>
        \A s \in Slots(call.cmp) :
            LET mine == {e \in Events : e.screen = s[1] /\ e.slot = s[2]} IN
            IF IsReal(call.cmp, s[1], s[2])
            THEN \E e \in mine :
                    /\ mine = {e}
                    /\ e.row \in 2..Len(old.res)
                    /\ LET row  == old.res[e.row]
                           item == forms[FormKey].Screens[s[1]].Items[s[2]]
                       IN  /\ item.Label = Get(row, "label")
                           /\ item.Hint = Get(row, "hint")
                           /\ item.Options = Split(Get(row, "options"), optionSep)
            ELSE mine = {}

\* The named screens before screen i all took their header row.
Reached(i) ==
    \A k \in 1..(i - 1) :
        IsNamed(call.cmp, k) => \E e \in Events : e.screen = k /\ e.slot = 0

\* The first row not consumed when screen i starts.
NextRow(i) ==
    LET rows == {e.row : e \in {x \in Events : x.screen < i}} IN
    1 + (CHOOSE m \in rows : \A r \in rows : r <= m)

Premature(f, res, i, j) ==
    /\ IsReal(f, i, j)
    /\ \A k \in 1..i :
          IsNamed(f, k) =>
              /\ HeaderRow(f, k) <= Len(res)
              /\ Get(res[HeaderRow(f, k)], "screen") # Empty
    /\ \A s \in Slots(f) :
          (IsReal(f, s[1], s[2]) /\ (s[1] < i \/ (s[1] = i /\ s[2] < j))) =>
              /\ SlotRow(f, s[1], s[2]) <= Len(res)
              /\ Get(res[SlotRow(f, s[1], s[2])], "screen") = Empty
    /\ \/ SlotRow(f, i, j) > Len(res)
       \/ Get(res[SlotRow(f, i, j)], "screen") # Empty

\* C5: when the row about to be consumed for a real slot carries a screen
\* name, or no row is left for it, the Form merge fails ShapeMismatch and
\* nothing is stored.
C5_PrematureScreenFails ==
    (/\ pc \in {"returned", "crashed"}
     /\ call.cmp.kind = "Form"
     /\ Len(old.res) > 0
     /\ \E s \in Slots(call.cmp) : Premature(call.cmp, old.res, s[1], s[2])) =>
        /\ ret.err = ErrContent
        /\ forms = old.forms

(***************************************************************************)
(* Items: what trimming and joining mean, said without the code's loops.   *)
(***************************************************************************)
\* t is s without its leading and trailing white space.
IsTrimOf(t, s) ==
    \E a \in 0..Len(s) : \E b \in 0..(Len(s) - a) :
        /\ t = SubSeq(s, a + 1, Len(s) - b)
        /\ \A k \in 1..a : IsSpace(s[k])
        /\ \A k \in (Len(s) - b + 1)..Len(s) : IsSpace(s[k])
        /\ t = <<>> \/ (~IsSpace(t[1]) /\ ~IsSpace(t[Len(t)]))

Infixes(s) == {SubSeq(s, a, b) : a \in 1..(Len(s) + 1), b \in 0..Len(s)}

Trimmed(s) == CHOOSE t \in Infixes(s) : IsTrimOf(t, s)

RECURSIVE JoinSep(_)
JoinSep(pieces) ==
    IF pieces = <<>> THEN Empty
    ELSE IF Len(pieces) = 1 THEN pieces[1]
    ELSE pieces[1] \o paragraphSep \o JoinSep(Tail(pieces))

RECURSIVE DropLeadingEmpty(_)
DropLeadingEmpty(pieces) ==
    IF pieces # <<>> /\ Head(pieces) = Empty
    THEN DropLeadingEmpty(Tail(pieces)) ELSE pieces

StartsWith(s, pat) == Len(s) >= Len(pat) /\ SubSeq(s, 1, Len(pat)) = pat
EndsWith(s, pat) ==
    Len(s) >= Len(pat) /\ SubSeq(s, Len(s) - Len(pat) + 1, Len(s)) = pat
Contains(s, pat) ==
    \E k \in 1..(Len(s) - Len(pat) + 1) : SubSeq(s, k, k + Len(pat) - 1) = pat

\* The difficulties of the tree l, each by its positions.
DifPaths(l) ==
    UNION {UNION {{<<c, s, d>> : d \in 1..Len(l[c].Subcategories[s].Difficulties)}
                  : s \in 1..Len(l[c].Subcategories)}
           : c \in 1..Len(l)}

ItemsAt(l, path) == l[path[1]].Subcategories[path[2]].Difficulties[path[3]].Items

\* The tree is old.list with item appended to the items of the difficulty at
\* path, a difficulty with the ids of the Item node's parent and grandparent.
ItemAppended(path, item) ==
    /\ old.list[path[1]].Subcategories[path[2]].ID = call.cmp.parent.parent.ID
    /\ old.list[path[1]].Subcategories[path[2]].Difficulties[path[3]].ID = call.cmp.parent.ID
    /\ list = [old.list EXCEPT
                 ![path[1]].Subcategories[path[2]].Difficulties[path[3]].Items =
                     Append(@, item)]

\* The item a successful Item merge added.
NewItem ==
    LET path == CHOOSE q \in DifPaths(list) :
                    Len(ItemsAt(list, q)) = Len(ItemsAt(old.list, q)) + 1
    IN  ItemsAt(list, path)[Len(ItemsAt(list, path))]

\* The call reached body assembly: a row is there and a difficulty was found.
Assembled == Returned("Item") /\ Len(old.res) > 0 /\ ret.err # ErrNotFound

ParagraphMode == Assembled /\ Get(old.res[1], "body") = Empty
LegacyMode == Assembled /\ Get(old.res[1], "body") # Empty

\* The trimmed bodies of the rows after the first.
Pieces == [k \in 1..(Len(old.res) - 1) |-> Trimmed(Get(old.res[k + 1], "body"))]

\* C8: an Item merge that resolves its difficulty, whose first row has an
\* empty body and whose later rows all have non-empty trimmed bodies,
\* succeeds and appends to the resolved difficulty an
\* item whose title is the trimmed title of the first row and whose body is
\* the trimmed bodies of the later rows, in row order, joined by the
\* paragraph separator with none in front.
C8_ParagraphBody ==
    (/\ ParagraphMode
     /\ \A k \in 2..Len(old.res) : Trimmed(Get(old.res[k], "body")) # Empty) =>
        /\ ret.err = OK
        /\ \E path \in DifPaths(old.list) :
           LET item == NewItem IN
              /\ ItemAppended(path, item)
              /\ item.ID = call.cmp.ID
              /\ item.Title = Trimmed(Get(old.res[1], "title"))
              /\ item.Body = JoinSep(Pieces)

\* Two paragraphs are joined into the second item of a difficulty.
C8_Witness ==
    /\ ParagraphMode
    /\ ret.err = OK
    /\ old.res = <<RowTitle, RowPara, RowLegacy>>
    /\ NewItem.Body = <<"p", "\n", "\n", "x">>
    /\ \E path \in DifPaths(list) : Len(ItemsAt(list, path)) = 2

\* C9 (as the claim states it): in paragraph mode the body never starts with
\* the separator, never ends with it and never holds two adjacent separators.
C9_SeparatorOnlyBetweenPieces ==
    (ParagraphMode /\ ret.err = OK) =>
        /\ ~StartsWith(NewItem.Body, paragraphSep)
        /\ ~EndsWith(NewItem.Body, paragraphSep)
        /\ ~Contains(NewItem.Body, paragraphSep \o paragraphSep)

\* C9 (amended): in paragraph mode the body is the trimmed bodies of the rows
\* after the first, the leading empty ones dropped, joined by the separator:
\* no separator stands in front of the first non-empty piece, and every later
\* piece, empty or not, has one in front of it.
C9_SeparatorBeforeEveryLaterPiece ==
    (ParagraphMode /\ ret.err = OK) =>
        /\ NewItem.Body = JoinSep(DropLeadingEmpty(Pieces))
        /\ ~StartsWith(NewItem.Body, paragraphSep)

\* An empty piece after a paragraph leaves the separator at the end.
C9_Witness ==
    /\ ParagraphMode
    /\ ret.err = OK
    /\ old.res = <<RowTitle, RowPara, RowTitle>>
    /\ NewItem.Body = <<"p", "\n", "\n">>

\* C10: an Item merge that resolves its difficulty and whose first row has a
\* non-empty body succeeds, appending an item whose body is the trimmed body
\* of that row, when the Resource has exactly one row, and fails
\* ShapeMismatch, appending nothing, when it has two or more.
C10_LegacyBody ==
    LegacyMode =>
        IF Len(old.res) = 1
        THEN /\ ret.err = OK
             /\ \E path \in DifPaths(old.list) : ItemAppended(path, NewItem)
             /\ NewItem.Body = Trimmed(old.res[1].body)
        ELSE /\ ret.err = ErrContent
             /\ list = old.list

\* A legacy row followed by another row is refused by a difficulty that
\* already holds an item.
C10_Witness ==
    /\ LegacyMode
    /\ Len(old.res) = 2
    /\ ret.err = ErrContent
    /\ \E path \in DifPaths(list) : Len(ItemsAt(list, path)) = 1

(***************************************************************************)
(* Checklists.                                                             *)
(***************************************************************************)
\* The rows of res that are left once the leading nil rows are dropped.
Remaining(res) ==
    LET real  == {k \in 1..Len(res) : res[k] # NilRow}
        first == IF real = {} THEN Len(res) + 1
                 ELSE CHOOSE k \in real : \A h \in real : k <= h
    IN  SubSeq(res, first, Len(res))

\* The tree is old.list with the checklist of the difficulty at path replaced
\* by checks, a difficulty with the ids of the node's parent and grandparent.
ChecksReplaced(path, checks) ==
    /\ old.list[path[1]].Subcategories[path[2]].ID = call.cmp.parent.parent.ID
    /\ old.list[path[1]].Subcategories[path[2]].Difficulties[path[3]].ID = call.cmp.parent.ID
    /\ list = [old.list EXCEPT
                 ![path[1]].Subcategories[path[2]].Difficulties[path[3]].Checks =
                     [set |-> TRUE, Checks |-> checks]]

\* C11: a Checklist merge that resolves its difficulty drops the leading nil
\* rows; when as many rows remain as the schema has checks, the difficulty's
\* checklist becomes the checks with the trimmed text of the k-th remaining
\* row and the noCheck flag of the k-th schema check; when the counts differ
\* the merge fails ShapeMismatch and the tree stays as it was.
C11_ChecklistRows ==
    (Returned("Checklist") /\ ret.err # ErrNotFound) =>
        LET rows == Remaining(old.res) IN
        IF Len(rows) = Len(call.cmp.Checks)
        THEN /\ ret.err = OK
             /\ \E path \in DifPaths(old.list) :
                   ChecksReplaced(path,
                       [k \in 1..Len(rows) |->
                           [Text |-> Trimmed(Get(rows[k], "text")),
                            NoCheck |-> call.cmp.Checks[k].NoCheck]])
        ELSE /\ ret.err = ErrContent
             /\ list = old.list

\* A leading nil row is dropped and the two checks replace an earlier
\* checklist of the difficulty.
C11_Witness ==
    /\ Returned("Checklist")
    /\ ret.err = OK
    /\ old.res = <<NilRow, RowTextA, RowTextB>>
    /\ \E path \in DifPaths(list) :
          /\ old.list[path[1]].Subcategories[path[2]].Difficulties[path[3]].Checks
                = [set |-> TRUE,
                   Checks |-> <<[Text |-> <<"b">>, NoCheck |-> FALSE],
                                [Text |-> <<>>, NoCheck |-> TRUE]>>]
          /\ list[path[1]].Subcategories[path[2]].Difficulties[path[3]].Checks
                = [set |-> TRUE,
                   Checks |-> <<[Text |-> <<"a">>, NoCheck |-> FALSE],
                                [Text |-> <<"b">>, NoCheck |-> TRUE]>>]

(***************************************************************************)
(* The registry.                                                           *)
(***************************************************************************)
\* The id of the category at the root of a tree node's ancestor chain.
RootID(cmp) ==
    CASE cmp.kind = "Category"    -> cmp.ID
      [] cmp.kind = "Subcategory" -> cmp.parent.ID
      [] cmp.kind = "Difficulty"  -> cmp.parent.parent.ID
      [] cmp.kind \in {"Item", "Checklist"} -> cmp.parent.parent.parent.ID

\* The (id, locale) keys of the entries of l.
Keys(l) == {<<l[k].ID, l[k].Locale>> : k \in 1..Len(l)}

\* C12: the registry list holds one entry per successful Category merge, in
\* call order: a successful Category merge appends one entry for (id, locale)
\* behind the entries that were there, every other call keeps the number, the
\* order and the identity of the entries.  The index maps every registered
\* (id, locale) to the entry appended last for it.  A successful child merge
\* under a registered (id, locale) changes the newest entry of that key and
\* no other entry.
C12_RegistryAppendOnly ==
    pc = "returned" =>
        /\ IF call.cmp.kind = "Category" /\ ret.err = OK
           THEN /\ Len(list) = Len(old.list) + 1
                /\ SubSeq(list, 1, Len(old.list)) = old.list
                /\ list[Len(list)].ID = call.cmp.ID
                /\ list[Len(list)].Locale = call.locale
           ELSE /\ Len(list) = Len(old.list)
                /\ \A k \in 1..Len(list) :
                      /\ list[k].ID = old.list[k].ID
                      /\ list[k].Locale = old.list[k].Locale
        /\ DOMAIN index = Keys(list)
        /\ \A key \in DOMAIN index : index[key] + 1 = Registered(list, key[1], key[2])
        /\ (/\ call.cmp.kind \in {"Subcategory", "Difficulty", "Item", "Checklist"}
            /\ ret.err = OK
            /\ Registered(old.list, RootID(call.cmp), call.locale) # 0) =>
               \A k \in 1..Len(list) :
                   k # Registered(old.list, RootID(call.cmp), call.locale) =>
                       list[k] = old.list[k]

\* The same Category was merged twice and a Subcategory merge for it attached
\* to the second entry.
C12_Witness ==
    /\ Returned("Subcategory")
    /\ ret.err = OK
    /\ Len(list) = 2
    /\ list[1].ID = call.cmp.parent.ID /\ list[1].Locale = call.locale
    /\ list[2].ID = call.cmp.parent.ID /\ list[2].Locale = call.locale
    /\ list[1] = old.list[1]
    /\ Len(list[2].Subcategories) = Len(old.list[2].Subcategories) + 1

\* The positions in list of the categories of a locale.
OfLocale(loc) == {k \in 1..Len(list) : list[k].Locale = loc}

\* The position in list of the i-th category of a locale.
NthOfLocale(loc, i) ==
    CHOOSE k \in OfLocale(loc) : Cardinality({h \in OfLocale(loc) : h <= k}) = i

\* C13: Categories() has a key for exactly the locales of the registered
\* categories; under locale L it holds exactly the registered categories of
\* locale L in registration order, so every registered category is under one
\* key, the key of its locale.
C13_CategoriesByLocale ==
    /\ DOMAIN Categories = {loc \in Locales : OfLocale(loc) # {}}
    /\ \A loc \in DOMAIN Categories :
          /\ Len(Categories[loc]) = Cardinality(OfLocale(loc))
          /\ \A i \in 1..Len(Categories[loc]) :
                Categories[loc][i] = list[NthOfLocale(loc, i)]

\* One id registered twice for one locale and nothing for the other locale:
\* both entries are under the one key, in registration order.
C13_Witness ==
    /\ Len(list) = 2
    /\ list[1].ID = list[2].ID
    /\ list[1] # list[2]
    /\ DOMAIN Categories = {"en"}
    /\ Categories["en"] = <<list[1], list[2]>>

(***************************************************************************)
(* The form store.                                                         *)
(***************************************************************************)
\* The FormInput a row gives.
InputOf(row) ==
    [Label |-> Get(row, "label"), Hint |-> Get(row, "hint"),
     Options |-> Split(Get(row, "options"), optionSep)]

\* Every part of the form f comes from the node, the rows and the locale of
\* the call: the id, the locale, the name of the first row, one screen per
\* schema screen with one item per schema slot, a screen name that is a
\* screen field of a row of the call (empty for an anonymous screen), and
\* items that are zero or built from a row of the call.
BuiltByCall(f) ==
    /\ DOMAIN f = {"ID", "Name", "Locale", "Screens"}
    /\ f.ID = call.cmp.ID
    /\ f.Locale = call.locale
    /\ f.Name = Get(old.res[1], "form")
    /\ Len(f.Screens) = Len(call.cmp.Screens)
    /\ \A i \in 1..Len(f.Screens) :
          /\ DOMAIN f.Screens[i] = {"Name", "Items"}
          /\ IF IsNamed(call.cmp, i)
             THEN \E e \in Events : /\ e.screen = i /\ e.slot = 0
                                    /\ f.Screens[i].Name = Get(old.res[e.row], "screen")
             ELSE f.Screens[i].Name = Empty
          /\ Len(f.Screens[i].Items) = Len(call.cmp.Screens[i].Items)
          /\ \A j \in 1..Len(f.Screens[i].Items) :
                \/ f.Screens[i].Items[j] = ZeroInput
                \/ \E p \in 2..Len(old.res) : f.Screens[i].Items[j] = InputOf(old.res[p])

\* C14: a successful Form merge for (id, locale) leaves the form store
\* mapping (id, locale) to a form built from this call alone, every other key
\* of the form store as it was, and the category registry as it was.
C14_FormReplaced ==
    (Returned("Form") /\ ret.err = OK) =>
        /\ DOMAIN forms = DOMAIN old.forms \cup {FormKey}
        /\ BuiltByCall(forms[FormKey])
        /\ \A key \in DOMAIN old.forms : key # FormKey => forms[key] = old.forms[key]
        /\ list = old.list
        /\ index = old.index

\* A form is stored over a different form of the same key while the registry
\* and a form of another locale are there.
C14_Witness ==
    /\ Returned("Form")
    /\ ret.err = OK
    /\ FormKey \in DOMAIN old.forms
    /\ old.forms[FormKey].Screens[1].Name = <<"X">>
    /\ forms[FormKey].Screens[1].Name = <<"Y">>
    /\ \E key \in DOMAIN old.forms : key[1] = call.cmp.ID /\ key[2] # call.locale
    /\ \E key \in DOMAIN old.forms : key[1] # call.cmp.ID /\ key[2] = call.locale
    /\ Len(list) > 0

(***************************************************************************)
(* The dispatch.                                                           *)
(***************************************************************************)
Kinds == {"Form", "Category", "Subcategory", "Difficulty", "Item", "Checklist"}

SubPaths(l) == UNION {{<<c, s>> : s \in 1..Len(l[c].Subcategories)} : c \in 1..Len(l)}

ItemPaths(l) ==
    UNION {{<<q[1], q[2], q[3], i>> : i \in 1..Len(ItemsAt(l, q))} : q \in DifPaths(l)}

\* How many nodes of each kind the tree l holds.
Census(l) ==
    [Category |-> Len(l), Subcategory |-> Cardinality(SubPaths(l)),
     Difficulty |-> Cardinality(DifPaths(l)), Item |-> Cardinality(ItemPaths(l))]

\* The tree l without its checklists.
Unchecked(l) ==
    [c \in 1..Len(l) |->
        [l[c] EXCEPT !.Subcategories =
            [s \in 1..Len(l[c].Subcategories) |->
                [l[c].Subcategories[s] EXCEPT !.Difficulties =
                    [d \in 1..Len(l[c].Subcategories[s].Difficulties) |->
                        [l[c].Subcategories[s].Difficulties[d]
                            EXCEPT !.Checks = NoChecks]]]]]]

\* C15: Parse with a node that is none of the six kinds fails with
\* UnsupportedVariant and leaves registry and form store as they were.  Parse
\* with a node of one of the six kinds never fails with UnsupportedVariant,
\* and when it succeeds the effect is the effect of the merger of that kind
\* and of no other: a Form merge writes its form-store key and not the
\* registry; a Category, Subcategory, Difficulty or Item merge adds one node
\* of its own kind to the tree, none of another kind, and writes no form; a
\* Checklist merge changes checklists only.
C15_Dispatch ==
    pc = "returned" =>
        IF call.cmp.kind \notin Kinds
        THEN /\ ret.err = ErrInvalid
             /\ list = old.list /\ index = old.index /\ forms = old.forms
        ELSE /\ ret.err # ErrInvalid
             /\ ret.err = OK =>
                  CASE call.cmp.kind = "Form" ->
                         /\ list = old.list /\ index = old.index
                         /\ FormKey \in DOMAIN forms
                    [] call.cmp.kind = "Checklist" ->
                         /\ forms = old.forms /\ index = old.index
                         /\ Unchecked(list) = Unchecked(old.list)
                         /\ list # old.list
                              \/ \E q \in DifPaths(list) :
                                    list[q[1]].Subcategories[q[2]].Difficulties[q[3]].Checks.set
                    [] OTHER ->
                         /\ forms = old.forms
                         /\ Census(list) =
                              [Census(old.list) EXCEPT ![call.cmp.kind] = @ + 1]

\* A node of a seventh kind was handed to Parse while registry and form store
\* were not empty.
C15_Witness ==
    /\ pc = "returned"
    /\ call.cmp = Other
    /\ ret.err = ErrInvalid
    /\ Len(old.list) > 0
    /\ DOMAIN old.forms # {}

(***************************************************************************)
(* Ancestor chains.                                                        *)
(***************************************************************************)
\* The difficulties of l that an Item or Checklist node cmp names for the
\* locale: the node's difficulty id inside its subcategory id inside a
\* category with its category id and the locale.
ChainPaths(l, cmp, locale) ==
    {q \in DifPaths(l) :
        /\ l[q[1]].ID = cmp.parent.parent.parent.ID
        /\ l[q[1]].Locale = locale
        /\ l[q[1]].Subcategories[q[2]].ID = cmp.parent.parent.ID
        /\ l[q[1]].Subcategories[q[2]].Difficulties[q[3]].ID = cmp.parent.ID}

\* C16: an Item merge and a Checklist merge whose category, subcategory or
\* difficulty is absent from the registry for the call's locale fail with
\* NotFound and leave the tree as it was.  Stated for Resources that hold at
\* least one row, so that the row-count test parseItem makes before it looks
\* the chain up plays no part.
C16_AbsentChainNotFound ==
    (/\ pc = "returned"
     /\ call.cmp.kind \in {"Item", "Checklist"}
     /\ Len(old.res) > 0
     /\ ChainPaths(old.list, call.cmp, call.locale) = {}) =>
        /\ ret.err = ErrNotFound
        /\ list = old.list

\* The difficulty a top-down merge order leaves for an Item or Checklist
\* node and a locale: inside the category registered last for the node's
\* category id and the locale, inside the first subcategory with the node's
\* subcategory id, the first difficulty with the node's difficulty id.  A
\* successful Subcategory merge for the locale puts a subcategory with that id
\* into that category and a successful Difficulty merge after it puts a
\* difficulty with that id into that subcategory, so after Category,
\* Subcategory, Difficulty in this order the set holds one path.
TopDown(l, cmp, locale) ==
    {q \in ChainPaths(l, cmp, locale) :
        /\ q[1] = Registered(l, cmp.parent.parent.parent.ID, locale)
        /\ \A s \in 1..(q[2] - 1) :
              l[q[1]].Subcategories[s].ID # cmp.parent.parent.ID
        /\ \A d \in 1..(q[3] - 1) :
              l[q[1]].Subcategories[q[2]].Difficulties[d].ID # cmp.parent.ID}

\* The rows an Item or Checklist merge accepts once its difficulty is found.
WellShaped(cmp, res) ==
    IF cmp.kind = "Item"
    THEN Len(res) > 0 /\ (Get(res[1], "body") # Empty => Len(res) = 1)
    ELSE Len(Remaining(res)) = Len(cmp.Checks)

\* C17: once the category, then the subcategory, then the difficulty of an
\* Item or Checklist node are in the registry for locale L, whatever was
\* merged for other ids and other locales in between, a well-shaped Item or
\* Checklist merge for L succeeds; the item is appended to, or the checklist
\* set on, that difficulty inside that subcategory inside the category
\* registered last for (id, L), and the rest of the tree stays as it was.
C17_TopDownAttaches ==
    (/\ pc = "returned"
     /\ call.cmp.kind \in {"Item", "Checklist"}
     /\ WellShaped(call.cmp, old.res)
     /\ TopDown(old.list, call.cmp, call.locale) # {}) =>
        /\ ret.err = OK
        /\ \A q \in TopDown(old.list, call.cmp, call.locale) :
              LET now == list[q[1]].Subcategories[q[2]].Difficulties[q[3]] IN
              IF call.cmp.kind = "Item"
              THEN /\ Len(now.Items) = Len(ItemsAt(old.list, q)) + 1
                   /\ now.Items[Len(now.Items)].ID = call.cmp.ID
                   /\ list = [old.list EXCEPT
                                ![q[1]].Subcategories[q[2]].Difficulties[q[3]].Items =
                                    Append(@, now.Items[Len(now.Items)])]
              ELSE /\ now.Checks.set
                   /\ Len(now.Checks.Checks) = Len(call.cmp.Checks)
                   /\ list = [old.list EXCEPT
                                ![q[1]].Subcategories[q[2]].Difficulties[q[3]].Checks =
                                    now.Checks]

\* The category was registered twice for the locale and the chain was merged
\* after the second time: the checklist is set inside the second entry and
\* the first entry stays as it was.
C17_Witness ==
    /\ Returned("Checklist")
    /\ ret.err = OK
    /\ Len(list) = 2
    /\ list[1].ID = list[2].ID
    /\ list[1].Locale = call.locale /\ list[2].Locale = call.locale
    /\ TopDown(old.list, call.cmp, call.locale) = {<<2, 1, 1>>}
    /\ list[2].Subcategories[1].Difficulties[1].Checks.set
    /\ list[1] = old.list[1]

(***************************************************************************)
(* The scratch buffer.                                                     *)
(***************************************************************************)
\* The body the rows of one Item Resource give, whatever the buffer held.
BodyOfRows(res) ==
    IF Get(res[1], "body") # Empty
    THEN Trimmed(Get(res[1], "body"))
    ELSE JoinSep(DropLeadingEmpty(
             [k \in 1..(Len(res) - 1) |-> Trimmed(Get(res[k + 1], "body"))]))

\* C18: the body of the item a successful Item merge appends is a function
\* of the rows of that call alone, whatever the earlier calls left in the
\* shared buffer; the buffer holds that body and nothing else afterwards.
C18_BodyFromRowsOnly ==
    (Returned("Item") /\ ret.err = OK) =>
        /\ NewItem.Body = BodyOfRows(old.res)
        /\ buffer = BodyOfRows(old.res)

\* The buffer still held the body of an earlier item when the merge began.
C18_Witness ==
    /\ Returned("Item")
    /\ ret.err = OK
    /\ old.buffer = <<"p", "\n", "\n", "x">>
    /\ old.res = <<RowLegacy>>
    /\ NewItem.Body = <<"x">>

(***************************************************************************)
(* Locales.                                                                *)
(***************************************************************************)
\* C19: a Parse call made with locale L leaves every registered category of
\* another locale, with all that is under it, as it was, and registers no
\* category of another locale.
C19_LocaleIsolation ==
    pc = "returned" =>
        /\ \A k \in 1..Len(old.list) :
              old.list[k].Locale # call.locale =>
                  k <= Len(list) /\ list[k] = old.list[k]
        /\ \A k \in (Len(old.list) + 1)..Len(list) : list[k].Locale = call.locale

(***************************************************************************)
(* The inputs of a call.                                                   *)
(***************************************************************************)
\* C20: Parse treats its inputs as read-only: after every call that returns,
\* successful or failed, the Resource that was passed in holds the same rows
\* in the same order as before the call.
C20_ResourceUnchanged ==
    pc = "returned" => call.res = old.res

====
